---- MODULE Spec2Model ----
(***************************************************************************)
(* The virtio console device of src/src/virtio_console.js: the control     *)
(* protocol on queues 2 and 3, the per-port data forwarding, the resize    *)
(* notifier and the buffer-chain lifecycle.                                *)
(*                                                                         *)
(* A queue is the sequence of the requests the guest has posted and the    *)
(* device has not popped yet, oldest first; a request is its readable blob *)
(* (a sequence of bytes; empty for a receive buffer).  Every handler runs  *)
(* to completion as one action.  What a handler did is kept in op, popped, *)
(* replies, sent and thrown, which describe the last handler only.  A      *)
(* buffer-chain handle is named by the place of its request in the queue   *)
(* when the handler started (1 is the oldest); 0 names the handle obtained *)
(* by popping a queue that holds nothing.                                  *)
(***************************************************************************)
EXTENDS Integers, Sequences, FiniteSets, TLC

VIRTIO_CONSOLE_DEVICE_READY == 0
VIRTIO_CONSOLE_DEVICE_ADD == 1
VIRTIO_CONSOLE_DEVICE_REMOVE == 2
VIRTIO_CONSOLE_PORT_READY == 3
VIRTIO_CONSOLE_CONSOLE_PORT == 4
VIRTIO_CONSOLE_RESIZE == 5
VIRTIO_CONSOLE_PORT_OPEN == 6
VIRTIO_CONSOLE_PORT_NAME == 7

\* Defaults of the constructor.
DefaultRows == 25
DefaultCols == 80
DefaultPorts == 4
DefaultConsolePortEnable == 15

\* Bounds of the model.
MaxPorts == 2
MaxCtl == 2
MaxTx == 2
MaxBufs == 3

VARIABLES
    ports,              \* this.ports
    consolePortEnable,  \* this.consolePortEnable
    rows,               \* this.rows
    cols,               \* this.cols
    configured,         \* the driver has set the queues up (is_configured())
    driven,             \* the queues the guest and the host exercise in this run
    guest,              \* which control messages the guest of this run sends
    avail,              \* avail[q]: the requests posted on queue q and not popped
    op,                 \* the last handler that ran, with its arguments
    popped,             \* the pop_request calls of the last handler, in order
    replies,            \* the push_reply calls of the last handler, in order
    sent,               \* the bus.send calls of the last handler, in order
    flushed,            \* the replies of the last handler the driver can see
    thrown,             \* the last handler was left by an exception
    before,             \* avail as the last handler found it
    constructed,        \* history: <<cols, rows>> as the constructor left them
    resized,            \* history: a resize event has been handled
    lastSize,           \* history: the size of the last resize event, or constructed
    ready               \* history: a DeviceReady message has been handled

vars == <<ports, consolePortEnable, rows, cols, configured, driven, guest, avail,
          op, popped, replies, sent, flushed, thrown, before, constructed, resized,
          lastSize, ready>>

config == <<ports, consolePortEnable>>

(***************************************************************************)
(* The queues declared by the constructor.                                 *)
(***************************************************************************)
NumQueues(n) == 4 + 2 * (n - 1)

Queues == 0 .. NumQueues(ports) - 1

\* size_supported of queue q: 16, except 8 for the transmit queue of a port >= 1.
QueueSize(q) == IF q > 3 /\ q % 2 = 1 THEN 8 ELSE 16

\* notify_offset of queue q, which selects the notification handler.
NotifyOffset(q) == IF q < 4 THEN q ELSE q % 2

\* The queues array as the constructor builds it: four queues, then a receive
\* and a transmit queue pushed for each port from 1 on.
RECURSIVE PushPortQueues(_, _)
PushPortQueues(queues, i) ==
    IF i < ports
    THEN PushPortQueues(queues \o <<[size_supported |-> 16, notify_offset |-> 0],
                                    [size_supported |-> 8, notify_offset |-> 1]>>,
                        i + 1)
    ELSE queues

DeclaredQueues ==
    PushPortQueues(<<[size_supported |-> 16, notify_offset |-> 0],
                     [size_supported |-> 16, notify_offset |-> 1],
                     [size_supported |-> 16, notify_offset |-> 2],
                     [size_supported |-> 16, notify_offset |-> 3]>>, 1)

\* Mutant of queue_index: the control queues are not skipped.
queue_index_NoSkip(port) == port * 2

\* The receive queue the constructor binds to a port's input-bytes channel.
queue_index(port) == IF port = 0 THEN 0 ELSE port * 2 + 2

\* The transmit queue the guest uses for a port (virtio layout).
TxQueue(port) == IF port = 0 THEN 1 ELSE port * 2 + 3

(***************************************************************************)
(* The virtqueue transport, as far as the device uses it.                  *)
(***************************************************************************)
\* A completely full ring reads as an empty one.
count_requests(av, q) == Len(av[q]) % QueueSize(q)

has_request(av, q) == count_requests(av, q) # 0

\* What popping a queue that holds nothing does: the pop fails, or it hands
\* out a handle to no posted request.
PopEmptyOutcomes == {"fails", "stale"}

\* The device and its queues while a handler runs: the fields a handler reads
\* and writes, and what it has done so far.
Machine == [avail |-> avail, rows |-> rows, cols |-> cols, popped |-> <<>>,
            replies |-> <<>>, sent |-> <<>>, flushed |-> {}, thrown |-> FALSE]

NextHandle(m, q) ==
    1 + Cardinality({i \in 1 .. Len(m.popped) :
                        m.popped[i].queue = q /\ m.popped[i].handle # 0})

pop_request(m, q, ub) ==
    IF m.thrown THEN m
    ELSE IF Len(m.avail[q]) > 0
    THEN [m EXCEPT !.avail[q] = Tail(@),
                   !.popped = Append(@, [queue |-> q, handle |-> NextHandle(m, q),
                                         blob |-> Head(m.avail[q])])]
    ELSE IF ub = "fails"
    THEN [m EXCEPT !.thrown = TRUE]
    ELSE [m EXCEPT !.popped = Append(@, [queue |-> q, handle |-> 0, blob |-> <<>>])]

\* The handle and the readable blob of the last pop.
LastPop(m) == m.popped[Len(m.popped)]

push_reply(m, q, h, blob) ==
    IF m.thrown THEN m
    ELSE [m EXCEPT !.replies = Append(@, [queue |-> q, handle |-> h, blob |-> blob])]

\* flush_replies makes the replies pushed on queue q visible to the driver.
flush_replies(m, q) ==
    IF m.thrown THEN m
    ELSE [m EXCEPT !.flushed = @ \cup {i \in 1 .. Len(m.replies) : m.replies[i].queue = q}]

bus_send(m, port, buffer) ==
    IF m.thrown THEN m
    ELSE [m EXCEPT !.sent = Append(@, [port |-> port, bytes |-> buffer])]

(***************************************************************************)
(* VirtioConsole.prototype.Send and Ack.                                   *)
(***************************************************************************)
\* Mutant of Send: the blob is not written to the chain.
Send_Empty(m, queue_id, h, blob) ==
    flush_replies(push_reply(m, queue_id, h, <<>>), queue_id)

Send(m, queue_id, h, blob) ==
    flush_replies(push_reply(m, queue_id, h, blob), queue_id)

\* Mutant of Ack: the reply carries one byte.
Ack_OneByte(m, queue_id, h) ==
    flush_replies(push_reply(m, queue_id, h, <<0>>), queue_id)

\* Mutant of Ack: the reply is pushed and not flushed.
Ack_NoFlush(m, queue_id, h) == push_reply(m, queue_id, h, <<>>)

Ack(m, queue_id, h) ==
    flush_replies(push_reply(m, queue_id, h, <<>>), queue_id)

(***************************************************************************)
(* Handlers 0 and 2: a receive queue, or the control-receive queue, was    *)
(* notified.                                                               *)
(***************************************************************************)
\* Mutant of ReceiveAvailable: the loop also runs at size - 2.
RECURSIVE ReceiveAvailable_AtThreshold(_, _)
ReceiveAvailable_AtThreshold(m, queue_id) ==
    IF count_requests(m.avail, queue_id) >= QueueSize(queue_id) - 2
    THEN ReceiveAvailable_AtThreshold(pop_request(m, queue_id, "fails"), queue_id)
    ELSE m

RECURSIVE ReceiveAvailable(_, _)
ReceiveAvailable(m, queue_id) ==
    IF count_requests(m.avail, queue_id) > QueueSize(queue_id) - 2
    THEN ReceiveAvailable(pop_request(m, queue_id, "fails"), queue_id)
    ELSE m

\* Mutant of ControlReceive: the loop stops at size - 1.
RECURSIVE ControlReceive_Loose(_, _)
ControlReceive_Loose(m, queue_id) ==
    IF queue_id # 2 THEN m
    ELSE IF count_requests(m.avail, queue_id) > QueueSize(queue_id) - 1
    THEN ControlReceive_Loose(pop_request(m, queue_id, "fails"), queue_id)
    ELSE m

RECURSIVE ControlReceive(_, _)
ControlReceive(m, queue_id) ==
    IF queue_id # 2 THEN m
    ELSE IF count_requests(m.avail, queue_id) > QueueSize(queue_id) - 2
    THEN ControlReceive(pop_request(m, queue_id, "fails"), queue_id)
    ELSE m

(***************************************************************************)
(* Wire format: marshall.Marshall and marshall.Unmarshall, little-endian.  *)
(***************************************************************************)
Bytes16(v) == <<v % 256, (v \div 256) % 256>>

Bytes32(v) == <<v % 256, (v \div 256) % 256, (v \div 65536) % 256,
                (v \div 16777216) % 256>>

\* Marshall(["w", "h", "h"], [port, event, value], buf, 0) on an 8-byte buf.
Marshall(port, event, value) == Bytes32(port) \o Bytes16(event) \o Bytes16(value)

\* Marshall(["w", "h", "h", "h", "h"], ...) on a 12-byte buf.
MarshallResize(port, event, value, r, c) ==
    Marshall(port, event, value) \o Bytes16(r) \o Bytes16(c)

\* What a field decodes to when its first byte lies beyond the buffer: not a
\* number, equal to no port and to no event code.
NaN == 0 - 1

\* A byte that follows the first byte of a field; beyond the buffer it adds
\* nothing to the field.
ByteAt(buffer, i) == IF i <= Len(buffer) THEN buffer[i] ELSE 0

\* Unmarshall(["w", "h", "h"], buffer, {offset: 0}): <<port, event, value>>.
\* The buffer is as long as the readable part of the request, which may be
\* shorter than the 8-byte header.
Unmarshall(buffer) ==
    << IF Len(buffer) < 1 THEN NaN
       ELSE buffer[1] + 256 * ByteAt(buffer, 2) + 65536 * ByteAt(buffer, 3)
                      + 16777216 * ByteAt(buffer, 4),
       IF Len(buffer) < 5 THEN NaN ELSE buffer[5] + 256 * ByteAt(buffer, 6),
       IF Len(buffer) < 7 THEN NaN ELSE buffer[7] + 256 * ByteAt(buffer, 8) >>

\* new TextEncoder().encode(name) of the decimal digits of a number.
RECURSIVE Digits(_)
Digits(n) == IF n < 10 THEN <<48 + n>> ELSE Digits(n \div 10) \o <<48 + (n % 10)>>

\* new TextEncoder().encode("virtio-" + port)
PortNameBytes(port) == <<118, 105, 114, 116, 105, 111, 45>> \o Digits(port)

(***************************************************************************)
(* SendEvent, SendName, SendWindowSize.                                    *)
(***************************************************************************)
SendEvent(m, port, event, value, ub) ==
    LET m1 == pop_request(m, 2, ub)
    IN  IF m1.thrown THEN m1
        ELSE Send(m1, 2, LastPop(m1).handle, Marshall(port, event, value))

SendName(m, port, namex, ub) ==
    LET m1 == pop_request(m, 2, ub)
    IN  IF m1.thrown THEN m1
        ELSE Send(m1, 2, LastPop(m1).handle,
                  Marshall(port, VIRTIO_CONSOLE_PORT_NAME, 1) \o namex \o <<0>>)

\* Mutant of SendWindowSize: cols and rows marshalled in the wrong order.
SendWindowSize_Swapped(m, port, ub) ==
    LET m1 == pop_request(m, 2, ub)
    IN  IF m1.thrown THEN m1
        ELSE Send(m1, 2, LastPop(m1).handle,
                  MarshallResize(port, VIRTIO_CONSOLE_RESIZE, 0, m.cols, m.rows))

SendWindowSize(m, port, ub) ==
    LET m1 == pop_request(m, 2, ub)
    IN  IF m1.thrown THEN m1
        ELSE Send(m1, 2, LastPop(m1).handle,
                  MarshallResize(port, VIRTIO_CONSOLE_RESIZE, 0, m.rows, m.cols))

(***************************************************************************)
(* Handler 1: a transmit queue was notified.                               *)
(***************************************************************************)
\* Mutant of TxPort: the port of a receive queue's index.
TxPort_RxIndex(queue_id) == IF queue_id > 3 THEN (queue_id - 4) \div 2 ELSE 0

TxPort(queue_id) == IF queue_id > 3 THEN (queue_id - 3) \div 2 ELSE 0

RECURSIVE TransmitForward(_, _)
TransmitForward(m, queue_id) ==
    IF m.thrown \/ ~has_request(m.avail, queue_id) THEN m
    ELSE LET m1 == pop_request(m, queue_id, "fails")
             m2 == bus_send(m1, TxPort(queue_id), LastPop(m1).blob)
         IN  TransmitForward(Ack(m2, queue_id, LastPop(m1).handle), queue_id)

(***************************************************************************)
(* Handler 3: the control-transmit queue was notified.                     *)
(***************************************************************************)
\* (1 << port) & this.consolePortEnable: the shift count is taken modulo 32.
IsConsolePort(port) == (consolePortEnable \div (2 ^ (port % 32))) % 2 = 1

\* Mutant of DeviceReady: the loop runs one port too far.
RECURSIVE DeviceReady_OneTooMany(_, _, _)
DeviceReady_OneTooMany(m, i, ub) ==
    IF i <= ports
    THEN DeviceReady_OneTooMany(SendEvent(m, i, VIRTIO_CONSOLE_DEVICE_ADD, 0, ub),
                                i + 1, ub)
    ELSE m

RECURSIVE DeviceReady(_, _, _)
DeviceReady(m, i, ub) ==
    IF i < ports
    THEN DeviceReady(SendEvent(m, i, VIRTIO_CONSOLE_DEVICE_ADD, 0, ub), i + 1, ub)
    ELSE m

\* Mutant of PortReady: the port is opened before it is named.
PortReady_OpenBeforeName(m, port, ub) ==
    LET m1 == IF IsConsolePort(port)
              THEN SendEvent(m, port, VIRTIO_CONSOLE_CONSOLE_PORT, 1, ub)
              ELSE m
        m2 == SendEvent(m1, port, VIRTIO_CONSOLE_PORT_OPEN, 1, ub)
    IN  SendName(m2, port, PortNameBytes(port), ub)

PortReady(m, port, ub) ==
    LET m1 == IF IsConsolePort(port)
              THEN SendEvent(m, port, VIRTIO_CONSOLE_CONSOLE_PORT, 1, ub)
              ELSE m
        m2 == SendName(m1, port, PortNameBytes(port), ub)
    IN  SendEvent(m2, port, VIRTIO_CONSOLE_PORT_OPEN, 1, ub)

PortOpen(m, port, ub) ==
    IF port = 0 THEN SendWindowSize(m, port, ub) ELSE m

\* The acknowledgments of one control message: the one before the switch, and
\* the one inside the PORT_READY and PORT_OPEN branches.
AckControl(m, bufchain, event) ==
    LET m1 == Ack(m, 3, bufchain)
    IN  IF event \in {VIRTIO_CONSOLE_PORT_READY, VIRTIO_CONSOLE_PORT_OPEN}
        THEN Ack(m1, 3, bufchain)
        ELSE m1

RECURSIVE ControlTransmit(_, _)
ControlTransmit(m, ub) ==
    IF m.thrown \/ ~has_request(m.avail, 3) THEN m
    ELSE LET m1 == pop_request(m, 3, ub)
             parts == Unmarshall(LastPop(m1).blob)
             port == parts[1]
             event == parts[2]
             m2 == AckControl(m1, LastPop(m1).handle, event)
         IN  CASE event = VIRTIO_CONSOLE_DEVICE_READY ->
                    ControlTransmit(DeviceReady(m2, 0, ub), ub)
               [] event = VIRTIO_CONSOLE_PORT_READY ->
                    ControlTransmit(PortReady(m2, port, ub), ub)
               [] event = VIRTIO_CONSOLE_PORT_OPEN ->
                    ControlTransmit(PortOpen(m2, port, ub), ub)
               [] OTHER -> m2

(***************************************************************************)
(* The bus handlers of a port.                                             *)
(***************************************************************************)
\* new Uint8Array(data)
ToUint8Array(data) == [i \in 1 .. Len(data) |-> data[i] % 256]

\* Mutant of InputBytes: the queue is popped without asking has_request.
InputBytes_NoCheck(m, port, data) ==
    LET m1 == pop_request(m, queue_index(port), "fails")
    IN  Send(m1, queue_index(port), LastPop(m1).handle, ToUint8Array(data))

InputBytes(m, port, data) ==
    IF has_request(m.avail, queue_index(port))
    THEN LET m1 == pop_request(m, queue_index(port), "fails")
         IN  Send(m1, queue_index(port), LastPop(m1).handle, ToUint8Array(data))
    ELSE m

\* Mutant of Resize: the size is stored only when it is sent.
Resize_StoreOnSend(m, port, size) ==
    IF configured /\ has_request(m.avail, 2)
    THEN SendWindowSize([m EXCEPT !.cols = size[1], !.rows = size[2]], port, "fails")
    ELSE m

\* Mutant of Resize: size read as (rows, cols).
Resize_RowsFirst(m, port, size) ==
    LET m1 == [m EXCEPT !.cols = size[2], !.rows = size[1]]
    IN  IF configured /\ has_request(m1.avail, 2)
        THEN SendWindowSize(m1, port, "fails")
        ELSE m1

Resize(m, port, size) ==
    LET m1 == [m EXCEPT !.cols = size[1], !.rows = size[2]]
    IN  IF configured /\ has_request(m1.avail, 2)
        THEN SendWindowSize(m1, port, "fails")
        ELSE m1

(***************************************************************************)
(* The environment: what the guest posts and what the host publishes.      *)
(***************************************************************************)
\* A request on queue 3 whose readable part stops after the event field.
ShortMsg == <<0, 0, 0, 0, 0, 0>>

\* An event code beyond the eight the protocol defines.
UnknownEvent == 9

\* The control messages of a guest that does not keep to the protocol: a
\* message cut short, PortReady for port 32, and an event code the protocol
\* does not define.
OddMsgs ==
    {ShortMsg,
     Marshall(32, VIRTIO_CONSOLE_PORT_READY, 1),
     Marshall(0, UnknownEvent, 0)}

\* The control messages the guest sends: DeviceReady, an event the device does
\* not expect, and PortReady and PortOpen for ports 0 and 1.
CtlMsgs ==
    {Marshall(0, VIRTIO_CONSOLE_DEVICE_READY, 1),
     Marshall(0, VIRTIO_CONSOLE_DEVICE_REMOVE, 0),
     Marshall(0, VIRTIO_CONSOLE_PORT_READY, 0),
     Marshall(0, VIRTIO_CONSOLE_PORT_READY, 1),
     Marshall(1, VIRTIO_CONSOLE_PORT_READY, 1),
     Marshall(0, VIRTIO_CONSOLE_PORT_OPEN, 0),
     Marshall(0, VIRTIO_CONSOLE_PORT_OPEN, 1),
     Marshall(1, VIRTIO_CONSOLE_PORT_OPEN, 1)}

\* The control messages of one run: those that name port 0, those of the
\* handshake of port 1, or those outside the protocol.
GuestMsgs ==
    CASE guest = "port0" -> {msg \in CtlMsgs : Unmarshall(msg)[1] = 0}
      [] guest = "port1" -> {msg \in CtlMsgs :
                                \/ Unmarshall(msg)[1] = 1
                                \/ Unmarshall(msg)[2] = VIRTIO_CONSOLE_DEVICE_READY}
      [] OTHER -> OddMsgs

TxBlobs == {<<>>, <<104>>, <<0, 255>>}

InputData == {<<>>, <<255, 10>>}

Sizes == {<<DefaultCols, DefaultRows>>, <<100, 30>>}

\* What the guest posts on queue q, and how many requests it leaves pending
\* there: control messages on queue 3, payloads on a transmit queue, empty
\* buffers on a receive queue.  The guest keeps one slot of a receive ring
\* free, a completely full ring being read as an empty one; on queue 2 it
\* posts at most MaxBufs buffers in a run that also sends control messages.
Postable(q) ==
    CASE q = 3 -> GuestMsgs
      [] NotifyOffset(q) = 1 -> TxBlobs
      [] OTHER -> {<<>>}

PostLimit(q) ==
    CASE q = 3 -> MaxCtl
      [] NotifyOffset(q) = 1 -> MaxTx
      [] q = 2 /\ 3 \in driven -> MaxBufs
      [] OTHER -> QueueSize(q) - 1

Commit(m, o) ==
    /\ avail' = m.avail
    /\ rows' = m.rows
    /\ cols' = m.cols
    /\ popped' = m.popped
    /\ replies' = m.replies
    /\ sent' = m.sent
    /\ flushed' = m.flushed
    /\ thrown' = m.thrown
    /\ op' = o
    /\ before' = avail
    /\ resized' = (resized \/ o.name = "resize")
    /\ lastSize' = (IF o.name = "resize" THEN o.arg ELSE lastSize)
    /\ ready' = (ready \/ \E i \in 1 .. Len(m.popped) :
                            /\ m.popped[i].queue = 3
                            /\ Unmarshall(m.popped[i].blob)[2] = VIRTIO_CONSOLE_DEVICE_READY)

NoOp == [name |-> "none", queue |-> 0 - 1, port |-> 0 - 1, arg |-> <<>>]

Init ==
    /\ ports \in 1 .. MaxPorts
    /\ consolePortEnable \in {DefaultConsolePortEnable, 2}
    /\ \E size \in Sizes : cols = size[1] /\ rows = size[2]
    /\ configured = FALSE
    /\ constructed = <<cols, rows>>
    /\ resized = FALSE
    /\ lastSize = constructed
    /\ ready = FALSE
    /\ driven \in {{2, 3}, {2}} \cup {{queue_index(p), TxQueue(p)} : p \in 0 .. ports - 1}
    /\ guest \in IF 3 \in driven THEN {"port0", "port1", "odd"} ELSE {"port0"}
    /\ avail = [q \in Queues |-> <<>>]
    /\ before = avail
    /\ op = NoOp
    /\ popped = <<>>
    /\ replies = <<>>
    /\ sent = <<>>
    /\ flushed = {}
    /\ thrown = FALSE

\* The driver sets the queues up.
DriverOk ==
    /\ ~configured
    /\ configured' = TRUE
    /\ Commit(Machine, [NoOp EXCEPT !.name = "driver_ok"])
    /\ UNCHANGED <<config, driven, guest, constructed>>

\* The guest is in the middle of posting requests on a transmit queue or on
\* queue 3: it posts them and notifies the queue before anything else happens
\* (what happens in between touches neither that queue nor what its handler
\* reads, so the order makes no difference).
Posting == op.name = "post" /\ NotifyOffset(op.queue) \in {1, 3}

PostingOn(q) == ~Posting \/ op.queue = q

\* The guest makes a request available on queue q, without notifying.
GuestPost(q, blob) ==
    /\ configured
    /\ q \in driven
    /\ PostingOn(q)
    /\ Len(avail[q]) < PostLimit(q)
    /\ Commit([Machine EXCEPT !.avail[q] = Append(@, blob)],
              [NoOp EXCEPT !.name = "post", !.queue = q])
    /\ UNCHANGED <<config, configured, driven, guest, constructed>>

\* The guest notifies a receive queue.
NotifyRx(q) ==
    /\ configured
    /\ q \in driven
    /\ ~Posting
    /\ NotifyOffset(q) = 0
    /\ Commit(ReceiveAvailable(Machine, q), [NoOp EXCEPT !.name = "notify", !.queue = q])
    /\ UNCHANGED <<config, configured, driven, guest, constructed>>

\* The guest notifies a transmit queue.
NotifyTx(q) ==
    /\ configured
    /\ q \in driven
    /\ PostingOn(q)
    /\ NotifyOffset(q) = 1
    /\ Commit(TransmitForward(Machine, q),
              [NoOp EXCEPT !.name = "notify", !.queue = q, !.arg = avail[q]])
    /\ UNCHANGED <<config, configured, driven, guest, constructed>>

\* The guest notifies the control-receive queue.
NotifyControlRx ==
    /\ configured
    /\ 2 \in driven
    /\ ~Posting
    /\ Commit(ControlReceive(Machine, 2), [NoOp EXCEPT !.name = "notify", !.queue = 2])
    /\ UNCHANGED <<config, configured, driven, guest, constructed>>

\* The guest notifies the control-transmit queue.
NotifyControlTx(ub) ==
    /\ configured
    /\ 3 \in driven
    /\ PostingOn(3)
    /\ Commit(ControlTransmit(Machine, ub),
              [NoOp EXCEPT !.name = "notify", !.queue = 3, !.arg = avail[3]])
    /\ UNCHANGED <<config, configured, driven, guest, constructed>>

\* The host publishes input bytes for a port.
HostInput(port, data) ==
    /\ configured
    /\ ~Posting
    /\ Commit(InputBytes(Machine, port, data),
              [NoOp EXCEPT !.name = "input", !.port = port, !.arg = data])
    /\ UNCHANGED <<config, configured, driven, guest, constructed>>

\* The host publishes a resize of a port's terminal.
HostResize(port, size) ==
    /\ ~Posting
    /\ Commit(Resize(Machine, port, size),
              [NoOp EXCEPT !.name = "resize", !.port = port, !.arg = size])
    /\ UNCHANGED <<config, configured, driven, guest, constructed>>

Next ==
    \/ DriverOk
    \/ \E q \in Queues : \E blob \in Postable(q) : GuestPost(q, blob)
    \/ \E q \in Queues : NotifyRx(q)
    \/ \E q \in Queues : NotifyTx(q)
    \/ NotifyControlRx
    \/ \E ub \in PopEmptyOutcomes : NotifyControlTx(ub)
    \/ \E port \in 0 .. ports - 1 : \E data \in InputData : HostInput(port, data)
    \/ \E port \in 0 .. ports - 1 : \E size \in Sizes : HostResize(port, size)

Spec == Init /\ [][Next]_vars

(***************************************************************************)
(* What the last handler did, as the claims speak of it.                   *)
(***************************************************************************)
\* The replies pushed on the control-receive queue, in order.
Out2 == SelectSeq(replies, LAMBDA r : r.queue = 2)

\* The replies pushed on the control-transmit queue, in order.
Out3 == SelectSeq(replies, LAMBDA r : r.queue = 3)

U16(blob, i) == blob[i] + 256 * blob[i + 1]

\* The last handler was the control-transmit handler, started on queue 3
\* holding exactly one message, with the given event.
HandledSingle(event) ==
    /\ op.name = "notify"
    /\ op.queue = 3
    /\ Len(op.arg) = 1
    /\ Unmarshall(op.arg[1])[2] = event

MsgPort == Unmarshall(op.arg[1])[1]

\* Reply i on queue 2 is the plain 8-byte control message <<port, event, value>>,
\* written to the i-th oldest buffer of queue 2.
IsEvent(i, port, event, value) ==
    /\ Out2[i].handle = i
    /\ Len(Out2[i].blob) = 8
    /\ Unmarshall(Out2[i].blob) = <<port, event, value>>

\* Reply i on queue 2 is PortName(port, 1, "virtio-" + port), port < 10.
IsPortName(i, port) ==
    /\ Out2[i].handle = i
    /\ Unmarshall(Out2[i].blob) = <<port, VIRTIO_CONSOLE_PORT_NAME, 1>>
    /\ SubSeq(Out2[i].blob, 9, Len(Out2[i].blob))
         = <<118, 105, 114, 116, 105, 111, 45, 48 + port, 0>>

\* Reply i on queue 2 is Resize(port, 0, r, c).
IsResize(i, port, r, c) ==
    /\ Out2[i].handle = i
    /\ Len(Out2[i].blob) = 12
    /\ Unmarshall(Out2[i].blob) = <<port, VIRTIO_CONSOLE_RESIZE, 0>>
    /\ U16(Out2[i].blob, 9) = r
    /\ U16(Out2[i].blob, 11) = c

\* Exactly the DeviceAdd messages of ports 0 .. ports-1, in ascending order.
DeviceAddsEmitted ==
    /\ ~thrown
    /\ Len(Out2) = ports
    /\ \A i \in 1 .. ports : IsEvent(i, i - 1, VIRTIO_CONSOLE_DEVICE_ADD, 0)

(* C1 (as amended): handling a single DeviceReady message on queue 3, with *)
(* at least N = ports buffers posted on queue 2, emits on queue 2 exactly  *)
(* N DeviceAdd messages with value 0 whose ports are 0 .. N-1 in ascending *)
(* order, each in a buffer of its own.                                     *)
C1_DeviceAddPerPort ==
    (HandledSingle(VIRTIO_CONSOLE_DEVICE_READY) /\ Len(before[2]) >= ports)
        => DeviceAddsEmitted

\* C1 witness: a DeviceReady handled with two ports and enough buffers.
C1_Witness ==
    /\ HandledSingle(VIRTIO_CONSOLE_DEVICE_READY)
    /\ ports = 2
    /\ Len(before[2]) >= ports
    /\ Len(Out2) = 2

(* C1 as stated: handling a single DeviceReady message emits exactly N     *)
(* DeviceAdd messages, whatever queue 2 holds.                             *)
C1_Original ==
    HandledSingle(VIRTIO_CONSOLE_DEVICE_READY) => DeviceAddsEmitted

\* Bit p of consolePortEnable, a 32-bit mask.
ConsoleBit(p) == p < 32 /\ (consolePortEnable \div (2 ^ p)) % 2 = 1

\* The replies on queue 2 a PortReady(p, v) calls for.
PortReadySequence(p) ==
    /\ ~thrown
    /\ IF ConsoleBit(p)
       THEN /\ Len(Out2) = 3
            /\ IsEvent(1, p, VIRTIO_CONSOLE_CONSOLE_PORT, 1)
            /\ IsPortName(2, p)
            /\ IsEvent(3, p, VIRTIO_CONSOLE_PORT_OPEN, 1)
       ELSE /\ Len(Out2) = 2
            /\ IsPortName(1, p)
            /\ IsEvent(2, p, VIRTIO_CONSOLE_PORT_OPEN, 1)

BuffersForPortReady(p) == IF ConsoleBit(p) THEN 3 ELSE 2

(* C2 (as amended): handling PortReady(p, v) for a port p of the device,   *)
(* with a buffer posted on queue 2 for each message, emits on queue 2      *)
(* ConsolePort(p,1),                                                       *)
(* PortName(p,1,"virtio-"+p), PortOpen(p,1) in that order when the console *)
(* bit of p is set, and PortName, PortOpen in that order when it is not.   *)
C2_PortReadySequence ==
    (/\ HandledSingle(VIRTIO_CONSOLE_PORT_READY)
     /\ MsgPort < ports
     /\ Len(before[2]) >= BuffersForPortReady(MsgPort))
        => PortReadySequence(MsgPort)

\* C2 witness: a PortReady handled for a port whose console bit is unset, and
\* the two messages emitted.
C2_Witness ==
    /\ HandledSingle(VIRTIO_CONSOLE_PORT_READY)
    /\ MsgPort < ports
    /\ ~ConsoleBit(MsgPort)
    /\ Len(before[2]) >= 2
    /\ Len(Out2) = 2

(* C2 as stated: PortReady(p, v) emits the sequence whatever queue 2 holds. *)
C2_Original ==
    (HandledSingle(VIRTIO_CONSOLE_PORT_READY) /\ MsgPort < ports)
        => PortReadySequence(MsgPort)

(* C3 (as amended): handling PortOpen(0, v) on a device constructed with   *)
(* rows = R, cols = C, with no resize event since and a buffer posted on   *)
(* queue 2, emits exactly one Resize message for port 0 with value 0,      *)
(* rows R and cols C; handling PortOpen(p, v), p # 0, pops nothing from    *)
(* queue 2 and emits nothing on it.                                        *)
C3_InitialSize ==
    HandledSingle(VIRTIO_CONSOLE_PORT_OPEN) =>
        IF MsgPort = 0
        THEN (~resized /\ Len(before[2]) >= 1) =>
                /\ ~thrown
                /\ Len(Out2) = 1
                /\ IsResize(1, 0, constructed[2], constructed[1])
        ELSE /\ Out2 = <<>>
             /\ avail[2] = before[2]

\* C3 witness: PortOpen(0, v) handled on a device constructed with 30 rows and
\* 100 columns and never resized, and its Resize message emitted.
C3_Witness ==
    /\ HandledSingle(VIRTIO_CONSOLE_PORT_OPEN)
    /\ MsgPort = 0
    /\ ~resized
    /\ constructed = <<100, 30>>
    /\ Len(Out2) = 1

(* C3 as stated: PortOpen(0, v) emits the Resize message whatever queue 2  *)
(* holds.                                                                  *)
C3_Original ==
    (HandledSingle(VIRTIO_CONSOLE_PORT_OPEN) /\ MsgPort = 0 /\ ~resized) =>
        /\ ~thrown
        /\ Len(Out2) = 1
        /\ IsResize(1, 0, constructed[2], constructed[1])

(* C4: every message popped from the control-transmit queue is acknowledged *)
(* exactly once, with a zero-length reply, whatever its event code.         *)
C4_AckedOnce ==
    (op.name = "notify" /\ op.queue = 3) =>
        /\ \A j \in 1 .. Len(Out3) : Out3[j].blob = <<>>
        /\ \A i \in 1 .. Len(popped) :
              popped[i].queue = 3 =>
                 Cardinality({j \in 1 .. Len(Out3) :
                                 Out3[j].handle = popped[i].handle}) = 1

\* The port whose transmit queue is q.
PortOfTx(q) == CHOOSE p \in 0 .. ports - 1 : TxQueue(p) = q

C6_DropOnEmpty ==
    [][ (op'.name = "input" /\ Len(avail[queue_index(op'.port)]) = 0) =>
            /\ replies' = <<>>
            /\ popped' = <<>>
            /\ sent' = <<>>
            /\ ~thrown'
            /\ avail' = avail
            /\ rows' = rows
            /\ cols' = cols ]_vars

\* C6 witness: input bytes arrived for a port with no receive buffer posted,
\* while another queue held buffers.
C6_Witness ==
    /\ op.name = "input"
    /\ Len(op.arg) > 0
    /\ Len(before[queue_index(op.port)]) = 0
    /\ \E q \in Queues : Len(avail[q]) > 0

\* The last handler was the notification handler of a receive-type queue.
RxNotified == op.name = "notify" /\ NotifyOffset(op.queue) \in {0, 2}

C8_SafeguardThreshold ==
    RxNotified =>
        IF count_requests(before, op.queue) > QueueSize(op.queue) - 2
        THEN /\ popped = <<[queue |-> op.queue, handle |-> 1, blob |-> <<>>]>>
             /\ replies = <<>>
        ELSE popped = <<>>

\* C8 witness: a data receive queue notified at capacity - 1, the oldest
\* request removed.
C8_Witness ==
    /\ RxNotified
    /\ NotifyOffset(op.queue) = 0
    /\ count_requests(before, op.queue) = QueueSize(op.queue) - 1
    /\ Len(popped) = 1

(* C8 as stated: a receive-type queue notified while its count equals      *)
(* capacity - 2 has its oldest request popped.                             *)
C8_Original ==
    (RxNotified /\ count_requests(before, op.queue) = QueueSize(op.queue) - 2)
        => Len(popped) >= 1

(* C9: no control message is emitted on queue 2 before the first           *)
(* DeviceReady message has been received.                                  *)
C9_SilentUntilReady == ~ready => Out2 = <<>>

(* C10: when a control message has to be emitted and queue 2 holds no      *)
(* posted buffer, the event is dropped: no pop of the empty queue, no      *)
(* reply pushed, and the handler goes on.                                  *)
C10_DropWhenNoBuffer ==
    (op.name = "notify" /\ op.queue = 3) =>
        /\ ~thrown
        /\ \A i \in 1 .. Len(popped) : popped[i].handle # 0
        /\ \A i \in 1 .. Len(replies) : replies[i].handle # 0

\* The last handler was the control-transmit handler.
ControlNotified == op.name = "notify" /\ op.queue = 3

(* C11: a control message with an unexpected event code is dropped and     *)
(* processing continues: when the control-transmit handler returns, queue  *)
(* 3 has no pending request left.                                          *)
C11_DrainedPastUnknown ==
    (ControlNotified /\ ~thrown) => avail[3] = <<>>

(* C12: a control-transmit message whose readable payload is shorter than  *)
(* the 8-byte header is acknowledged and dropped; it triggers no control   *)
(* message on queue 2, even with buffers posted there.                     *)
C12_ShortPayloadDropped ==
    (/\ ControlNotified
     /\ Len(op.arg) = 1
     /\ Len(op.arg[1]) < 8
     /\ Len(before[2]) >= ports)
        => /\ ~thrown
           /\ Len(Out3) >= 1
           /\ Out2 = <<>>
           /\ avail[2] = before[2]

C14_LatestSize ==
    ControlNotified =>
        \A i \in 1 .. Len(Out2) :
            Unmarshall(Out2[i].blob)[2] = VIRTIO_CONSOLE_RESIZE =>
                /\ Len(Out2[i].blob) = 12
                /\ Unmarshall(Out2[i].blob) = <<0, VIRTIO_CONSOLE_RESIZE, 0>>
                /\ U16(Out2[i].blob, 9) = lastSize[2]
                /\ U16(Out2[i].blob, 11) = lastSize[1]

\* C14 witness: PortOpen(0) answered with a Resize after a resize event that
\* changed the size.
C14_Witness ==
    /\ HandledSingle(VIRTIO_CONSOLE_PORT_OPEN)
    /\ MsgPort = 0
    /\ resized
    /\ lastSize # constructed
    /\ Len(Out2) = 1
    /\ Out2[1].handle = 1

\* The replies the last handler pushed on queue q for handle h.
RepliesFor(q, h) ==
    {j \in 1 .. Len(replies) : replies[j].queue = q /\ replies[j].handle = h}

(* C15: every buffer-chain handle popped by the notification handler of a  *)
(* receive-type queue, the ring-fullness safeguard's pops included, is     *)
(* returned to its queue exactly once as a reply or acknowledgment.        *)
C15_PoppedReturnedOnce ==
    RxNotified =>
        \A i \in 1 .. Len(popped) :
            Cardinality(RepliesFor(popped[i].queue, popped[i].handle)) = 1

\* The event codes of the messages the device authors.
DeviceEvents ==
    {VIRTIO_CONSOLE_DEVICE_ADD, VIRTIO_CONSOLE_CONSOLE_PORT, VIRTIO_CONSOLE_RESIZE,
     VIRTIO_CONSOLE_PORT_OPEN, VIRTIO_CONSOLE_PORT_NAME}

(* C16: every reply the device pushes on the control-transmit queue (3) is *)
(* zero-length, and every reply it pushes on the control-receive queue (2) *)
(* is a device-authored control message of at least 8 bytes; what a buffer *)
(* popped from queue 2 holds is never parsed, so it is never taken for a   *)
(* message of the guest.                                                   *)
C16_QueueDirection ==
    /\ \A i \in 1 .. Len(replies) :
          /\ replies[i].queue = 3 => replies[i].blob = <<>>
          /\ replies[i].queue = 2 =>
                /\ Len(replies[i].blob) >= 8
                /\ Unmarshall(replies[i].blob)[2] \in DeviceEvents
    /\ (op.name = "notify" /\ op.queue = 2) => (replies = <<>> /\ sent = <<>>)

\* C16 witness: one notification of queue 3 that acknowledged a message and
\* emitted three control messages on queue 2.
C16_Witness ==
    /\ ControlNotified
    /\ Len(Out3) >= 1
    /\ Len(Out2) = 3

\* The queue the layout gives port p for receiving and for transmitting.
RxOf(p) == IF p = 0 THEN 0 ELSE 2 * p + 2

TxOf(p) == IF p = 0 THEN 1 ELSE 2 * p + 3

(* C17: the device declares exactly 4 + 2*(portCount-1) queues; host input *)
(* for port p is written to queue 0 if p = 0 and to queue 2p+2 otherwise,  *)
(* a queue dispatched to the receive-availability handler; guest output    *)
(* notified on queue 1 (p = 0) or 2p+3 is published under port p and no    *)
(* other; no data queue is index 2 or 3.                                   *)
C17_Routing ==
    /\ Len(DeclaredQueues) = 4 + 2 * (ports - 1)
    /\ \A q \in Queues :
          /\ DeclaredQueues[q + 1].notify_offset = NotifyOffset(q)
          /\ DeclaredQueues[q + 1].size_supported = QueueSize(q)
    /\ \A p \in 0 .. ports - 1 :
          /\ {RxOf(p), TxOf(p)} \cap {2, 3} = {}
          /\ RxOf(p) < Len(DeclaredQueues) /\ TxOf(p) < Len(DeclaredQueues)
          /\ DeclaredQueues[RxOf(p) + 1].notify_offset = 0
          /\ DeclaredQueues[TxOf(p) + 1].notify_offset = 1
          /\ \A p2 \in 0 .. ports - 1 :
                p2 # p => {RxOf(p), TxOf(p)} \cap {RxOf(p2), TxOf(p2)} = {}
    /\ op.name = "input" =>
          /\ \A i \in 1 .. Len(popped) : popped[i].queue = RxOf(op.port)
          /\ \A i \in 1 .. Len(replies) : replies[i].queue = RxOf(op.port)
          /\ \A q \in Queues : q # RxOf(op.port) => avail[q] = before[q]
    /\ (op.name = "notify" /\ NotifyOffset(op.queue) = 1) =>
          \A i \in 1 .. Len(sent) :
              \A p \in 0 .. ports - 1 : (sent[i].port = p) <=> (op.queue = TxOf(p))

\* C17 witness: on a device with two ports, input for port 1 written to queue
\* 4, or output notified on queue 5 published under port 1.
C17_Witness ==
    /\ ports = 2
    /\ \/ /\ op.name = "input"
          /\ op.port = 1
          /\ Len(replies) = 1
          /\ replies[1].queue = 4
       \/ /\ op.name = "notify"
          /\ op.queue = 5
          /\ Len(sent) >= 1
          /\ sent[1].port = 1

C20_PortsInRange ==
    \A i \in 1 .. Len(Out2) :
        LET parts == Unmarshall(Out2[i].blob)
        IN  /\ parts[1] \in 0 .. ports - 1
            /\ parts[2] = VIRTIO_CONSOLE_CONSOLE_PORT => ConsoleBit(parts[1])
====
